---- MODULE Spec2Model ----
(***************************************************************************)
(* Model of cmd/troopinfo/main.go (rdeusser/kuftc): the TroopInfo.sox      *)
(* reader/writer.  One run of main() is a sequence of steps (open, header, *)
(* one step per record, one step per iteration of the trailing-bytes loop, *)
(* encode, then the five `if *flag` blocks in source order).  Runs follow  *)
(* one another over a persistent file system of three files: the source    *)
(* binary (troopInfoPath), its backup (troopInfoPath + ".bak") and the     *)
(* text file (troopInfoYAMLPath).                                          *)
(*                                                                         *)
(* Library behaviour the model relies on:                                  *)
(*  - zerolog: an event is written, and a Fatal event exits the process,   *)
(*    only when the chain ends in Msg/Msgf/Send.  `log.Fatal().Err(err)`   *)
(*    without Msg builds an event and drops it: the process continues.     *)
(*  - os.File.Read on a nil *os.File returns (0, os.ErrInvalid); at end of *)
(*    file it returns (0, io.EOF); a short final read returns n < len and  *)
(*    a nil error and leaves the rest of the buffer untouched (zero).      *)
(*  - binary.Read(r, order, &chars) with chars a nil []byte decodes        *)
(*    len(chars) = 0 elements: it reads nothing and leaves chars empty.    *)
(*  - yaml.v3 writes a float32 with strconv.FormatFloat(f, 'g', -1, 32),   *)
(*    NaN as ".nan", infinities as ".inf"/"-.inf"; on reading, a plain     *)
(*    scalar that strconv.ParseInt accepts resolves to an integer (so      *)
(*    "-0" is the integer 0) and ".nan" resolves to math.NaN().            *)
(***************************************************************************)
EXTENDS Integers, Sequences, FiniteSets, TLC

(* ------------------------------ bounds -------------------------------- *)

\* Number of records.  The source has 43 (len(troopNames), [43]troopInfo).
NumTroops == 1

\* Length of the trailing blob TheEnd.  The source has [64]byte.
TheEndLen == 4

\* Number of consecutive runs of the program over the same files.
MaxRuns == 2

(* ------------------------- program constants -------------------------- *)

defaultLength == 4

ExpectedVersion == 100

ExpectedCount == 43

(* --------------------------- little-endian ---------------------------- *)

Pow2(n) == IF n = 0 THEN 1 ELSE IF n = 1 THEN 2 ELSE IF n = 2 THEN 4 ELSE
           IF n = 3 THEN 8 ELSE IF n = 4 THEN 16 ELSE IF n = 5 THEN 32 ELSE
           IF n = 6 THEN 64 ELSE IF n = 7 THEN 128 ELSE IF n = 8 THEN 256 ELSE
           IF n = 9 THEN 512 ELSE IF n = 10 THEN 1024 ELSE IF n = 11 THEN 2048 ELSE
           IF n = 12 THEN 4096 ELSE IF n = 13 THEN 8192 ELSE IF n = 14 THEN 16384 ELSE
           IF n = 15 THEN 32768 ELSE IF n = 16 THEN 65536 ELSE IF n = 17 THEN 131072 ELSE
           IF n = 18 THEN 262144 ELSE IF n = 19 THEN 524288 ELSE IF n = 20 THEN 1048576 ELSE
           IF n = 21 THEN 2097152 ELSE IF n = 22 THEN 4194304 ELSE IF n = 23 THEN 8388608 ELSE
           16777216

Zeros(n) == [k \in 1..n |-> 0]

\* int32FromBytes / float32FromBytes: binary.Read of 4 little-endian bytes.
\* An int32 is its value; a float32 is kept as its 32 bits, read as an int32
\* (math.Float32frombits is a bit cast).
int32FromBytes(data) ==
    data[1] + 256 * data[2] + 65536 * data[3]
      + 16777216 * (IF data[4] >= 128 THEN data[4] - 256 ELSE data[4])

float32FromBytes(data) == int32FromBytes(data)

\* binary.Write of one int32 / float32 field, little-endian.
PutInt32(v) ==
    << v % 256, (v \div 256) % 256, (v \div 65536) % 256, (v \div 16777216) % 256 >>

(* ------------------------------ float32 ------------------------------- *)

FMag(bits) == IF bits >= 0 THEN bits ELSE (bits + 2147483647) + 1

FExp(bits) == FMag(bits) \div 8388608

FMant(bits) == FMag(bits) % 8388608

FIsNaN(bits) == FExp(bits) = 255 /\ FMant(bits) # 0

FIsInf(bits) == FExp(bits) = 255 /\ FMant(bits) = 0

FIsZero(bits) == FMag(bits) = 0

\* The float is a whole number of magnitude below 2^24.
FIsSmallInt(bits) ==
    /\ FExp(bits) >= 127
    /\ FExp(bits) <= 150
    /\ (8388608 + FMant(bits)) % Pow2(150 - FExp(bits)) = 0

FAbsInt(bits) == (8388608 + FMant(bits)) \div Pow2(150 - FExp(bits))

RECURSIVE Log2(_)
Log2(a) == IF a <= 1 THEN 0 ELSE 1 + Log2(a \div 2)

\* float32(float64(n)) for |n| < 2^24, as bits.
Float32OfInt(n) ==
    IF n = 0 THEN 0
    ELSE LET a == IF n < 0 THEN -n ELSE n
             e == Log2(a)
             m == (127 + e) * 8388608 + (a - Pow2(e)) * Pow2(23 - e)
         IN  IF n < 0 THEN (m - 2147483647) - 1 ELSE m

\* float32(math.NaN()): the quiet NaN 0x7FC00000.
CanonicalNaN == 2143289344

PosInf == 2139095040

NegInf == -8388608

(* ---------------------------- in-memory ------------------------------- *)

\* troopInfo, reduced to one int32 field and one float32 field (the source
\* has 9 int32 and 28 float32 fields, all read, written and converted alike).
TroopInfoZero == [Job |-> 0, MoveSpeed |-> 0]

\* troopInfoSOX{}: the zero value.
SOXZero ==
    [Version |-> 0, Count |-> 0,
     TroopInfos |-> [k \in 1..NumTroops |-> TroopInfoZero],
     TheEnd |-> Zeros(TheEndLen)]

RecordSize == 2 * defaultLength

TotalSize == 2 * defaultLength + NumTroops * RecordSize + TheEndLen

RECURSIVE Flatten(_)
Flatten(ss) == IF ss = <<>> THEN <<>> ELSE Head(ss) \o Flatten(Tail(ss))

\* binary.Write(buf, binary.LittleEndian, &tis): every field in declaration
\* order, then the TheEnd bytes.
BinaryWrite(t) ==
    PutInt32(t.Version) \o PutInt32(t.Count)
      \o Flatten([k \in 1..NumTroops |->
              PutInt32(t.TroopInfos[k].Job) \o PutInt32(t.TroopInfos[k].MoveSpeed)])
      \o t.TheEnd

\* copy(dst[:], src) into a zeroed fixed-size array of n bytes.
CopyInto(n, src) == [k \in 1..n |-> IF k <= Len(src) THEN src[k] ELSE 0]

(* ------------------------------- text --------------------------------- *)

\* A scalar of the text file is a pair <<kind, n>>:
\*   <<"int", n>>     a decimal integer literal
\*   <<"negzero", 0>> the literal -0
\*   <<"dec", bits>>  the shortest decimal literal that identifies the
\*                    float32 with these bits (a finite value that is not a
\*                    whole number below 10^6)
\*   <<"nan", 0>>, <<"inf", 0>>, <<"neginf", 0>>  .nan, .inf, -.inf
\*   <<"str", 0>>     a scalar that is not a number
\*   <<"absent", 0>>  the key is not in the document
Absent == <<"absent", 0>>

\* yaml.v3's encoder for an int32.
MarshalInt(v) == <<"int", v>>

\* yaml.v3's encoder for a float32: FormatFloat(f, 'g', -1, 32), with the
\* three special spellings.  'g' with the shortest precision prints a whole
\* number below 10^6 without exponent or fraction.
MarshalFloat(bits) ==
    IF FIsNaN(bits) THEN <<"nan", 0>>
    ELSE IF FIsInf(bits) THEN (IF bits < 0 THEN <<"neginf", 0>> ELSE <<"inf", 0>>)
    ELSE IF FIsZero(bits) THEN (IF bits < 0 THEN <<"negzero", 0>> ELSE <<"int", 0>>)
    ELSE IF FIsSmallInt(bits) /\ FAbsInt(bits) < 1000000
         THEN <<"int", IF bits < 0 THEN -FAbsInt(bits) ELSE FAbsInt(bits)>>
    ELSE <<"dec", bits>>

\* yaml.v3's decoder into an int32 field holding `old`: [err, v].  A scalar
\* that is not an integer literal is taken as a type error; no text of the
\* model puts a float literal in an int32 field.
UnmarshalInt(tok, old) ==
    IF tok = Absent THEN [err |-> FALSE, v |-> old]
    ELSE IF tok[1] = "int" THEN [err |-> FALSE, v |-> tok[2]]
    ELSE IF tok[1] = "negzero" THEN [err |-> FALSE, v |-> 0]
    ELSE [err |-> TRUE, v |-> old]

\* yaml.v3's decoder into a float32 field holding `old`: [err, v].  A scalar
\* that resolves to an integer is converted with float64(int); .nan is
\* math.NaN().
UnmarshalFloat(tok, old) ==
    IF tok = Absent THEN [err |-> FALSE, v |-> old]
    ELSE IF tok[1] = "int" THEN [err |-> FALSE, v |-> Float32OfInt(tok[2])]
    ELSE IF tok[1] = "negzero" THEN [err |-> FALSE, v |-> Float32OfInt(0)]
    ELSE IF tok[1] = "dec" THEN [err |-> FALSE, v |-> tok[2]]
    ELSE IF tok[1] = "nan" THEN [err |-> FALSE, v |-> CanonicalNaN]
    ELSE IF tok[1] = "inf" THEN [err |-> FALSE, v |-> PosInf]
    ELSE IF tok[1] = "neginf" THEN [err |-> FALSE, v |-> NegInf]
    ELSE [err |-> TRUE, v |-> old]

\* The content of a text file: `syntax` is whether it parses as YAML,
\* `comments` the number of leading "# i -- name" lines, `hasTroops` whether
\* the key troop_infos is present, `troops` its sequence of mappings.  The
\* key TheEnd is never written or read (yaml:"-").
EmptyDoc ==
    [syntax |-> TRUE, comments |-> 0, version |-> Absent, count |-> Absent,
     hasTroops |-> FALSE, troops |-> <<>>]

\* yaml.Marshal(tis), after the comment lines main writes in front of it.
YamlMarshal(t) ==
    [syntax |-> TRUE, comments |-> NumTroops,
     version |-> MarshalInt(t.Version), count |-> MarshalInt(t.Count),
     hasTroops |-> TRUE,
     troops |-> [k \in 1..NumTroops |->
                  [job |-> MarshalInt(t.TroopInfos[k].Job),
                   move_speed |-> MarshalFloat(t.TroopInfos[k].MoveSpeed)]]]

\* yaml.Unmarshal(yamlData, &sox): [err, sox].  A sequence decoded into a
\* fixed-size array must have exactly its length.
YamlUnmarshal(doc, sox) ==
    IF ~doc.syntax \/ (doc.hasTroops /\ Len(doc.troops) # NumTroops)
    THEN [err |-> TRUE, sox |-> sox]
    ELSE LET ver == UnmarshalInt(doc.version, sox.Version)
             cnt == UnmarshalInt(doc.count, sox.Count)
             job(k) == UnmarshalInt(doc.troops[k].job, sox.TroopInfos[k].Job)
             spd(k) == UnmarshalFloat(doc.troops[k].move_speed,
                                      sox.TroopInfos[k].MoveSpeed)
             bad == \/ ver.err \/ cnt.err
                    \/ doc.hasTroops /\ \E k \in 1..NumTroops : job(k).err \/ spd(k).err
         IN  [err |-> bad,
              sox |-> [Version |-> ver.v, Count |-> cnt.v,
                       TroopInfos |->
                         IF doc.hasTroops
                         THEN [k \in 1..NumTroops |->
                                 [Job |-> job(k).v, MoveSpeed |-> spd(k).v]]
                         ELSE sox.TroopInfos,
                       TheEnd |-> sox.TheEnd]]

(* ------------------------------- files -------------------------------- *)

\* A file is [exists, bytes, doc]: a binary file has bytes, a text file has
\* one document in doc.  NoFile is the path with nothing at it.
NoFile == [exists |-> FALSE, bytes |-> <<>>, doc |-> <<>>]

BinFile(b) == [exists |-> TRUE, bytes |-> b, doc |-> <<>>]

TextFile(d) == [exists |-> TRUE, bytes |-> <<>>, doc |-> <<d>>]

\* bytes.Buffer contents: bytes written by binary.Write, or text written by
\* WriteString and Write(yaml).  Both are []byte in the program; a text is
\* never equal to a binary encoding or to the empty buffer (it starts with
\* "# 0 -- Archer" and is longer than any encoding).
BinBuf(b) == [text |-> FALSE, bytes |-> b, doc |-> <<>>]

TextBuf(d) == [text |-> TRUE, bytes |-> <<>>, doc |-> <<d>>]

\* binaryData(sox): [err, data].  On an error it returns the still empty
\* buffer.
binaryData(sox, yamlFile) ==
    IF ~yamlFile.exists THEN [err |-> TRUE, data |-> <<>>]
    ELSE LET u == YamlUnmarshal(yamlFile.doc[1], sox)
         IN  IF u.err THEN [err |-> TRUE, data |-> <<>>]
             ELSE [err |-> FALSE, data |-> BinaryWrite(u.sox)]

validSOX(version, count) ==
    IF version # ExpectedVersion \/ count # ExpectedCount THEN FALSE ELSE TRUE

(* ------------------------------- state -------------------------------- *)

VARIABLES
    sox,        \* the file at troopInfoPath
    bak,        \* the file at troopInfoPath + ".bak"
    yaml,       \* the file at troopInfoYAMLPath
    flags,      \* the command line: restore, debug, diff, write, update
    pc,         \* where main is
    file,       \* the *os.File: "none" before os.Open, then "open" or "nil"
    pos,        \* the file offset
    version,    \* main's local
    count,      \* main's local
    tis,        \* main's local troopInfoSOX
    i,          \* records read so far
    buf,        \* main's bytes.Buffer
    errs,       \* the error sites this run passed with a non-nil error
    dumped,     \* spew.Dump has printed
    diffed,     \* what cmp.Diff was given and whether it printed nothing
    wrote,      \* the paths this run has written
    input,      \* the source binary as it was when this run started
    runs,       \* runs started
    firstWrite, \* the first write-mode write: source, text, data
    lastWrite   \* the latest write-mode write: source, text, data

vars == << sox, bak, yaml, flags, pc, file, pos, version, count, tis, i, buf,
           errs, dumped, diffed, wrote, input, runs, firstWrite, lastWrite >>

Min(a, b) == IF a < b THEN a ELSE b

\* file.Read(data) with data := make([]byte, defaultLength), at offset p:
\* the buffer after the call, the new offset, and the error ("", "EOF" or
\* "ErrInvalid").
FileRead(p) ==
    IF file = "nil"
    THEN [data |-> Zeros(defaultLength), pos |-> p, err |-> "ErrInvalid"]
    ELSE LET n == Min(defaultLength, Len(sox.bytes) - p)
         IN  [data |-> [k \in 1..defaultLength |->
                          IF k <= n THEN sox.bytes[p + k] ELSE 0],
              pos |-> p + n,
              err |-> IF n = 0 THEN "EOF" ELSE ""]

\* readBytes: the error is neither returned nor fatal; io.EOF is not even
\* looked at.
readBytes(p) == FileRead(p)

ReadFailed(r) == r.err # "" /\ r.err # "EOF"

\* The body of the trailing loop after the error checks: binary.Read into
\* the nil slice chars, whose length is 0.
BinaryReadChars(data) == SubSeq(data, 1, 0)

NoDiff == [done |-> FALSE, empty |-> FALSE, want |-> BinBuf(<<>>), got |-> BinBuf(<<>>)]

NoWrite == [done |-> FALSE, source |-> NoFile, text |-> NoFile, err |-> FALSE, data |-> <<>>]

(* ------------------------------- inputs ------------------------------- *)

Headers == { <<100, 43>>, <<99, 43>>, <<100, 42>> }

\* <<Job, MoveSpeed bits>>: 1.0, 1.5, -0.0 and a NaN other than 0x7FC00000.
RecordSamples ==
    { <<7, 1065353216>>, <<1, 1069547520>>, <<2, -2147483647 - 1>>, <<3, 2143289345>> }

TailSamples == { Zeros(TheEndLen), [k \in 1..TheEndLen |-> k] }

LayoutBytes(h, recs, tl) ==
    PutInt32(h[1]) \o PutInt32(h[2])
      \o Flatten([k \in 1..NumTroops |-> PutInt32(recs[k][1]) \o PutInt32(recs[k][2])])
      \o tl

FullFiles ==
    { LayoutBytes(h, recs, tl) :
        h \in Headers, recs \in [1..NumTroops -> RecordSamples], tl \in TailSamples }

GoodBytes ==
    LayoutBytes(<<100, 43>>, [k \in 1..NumTroops |-> <<7, 1065353216>>],
                [k \in 1..TheEndLen |-> k])

\* Shorter than the layout (cut in the header, in a record, in the tail) and
\* longer than it.
OddFiles ==
    { SubSeq(GoodBytes, 1, n) : n \in {0, 6, 10, TotalSize - 1} }
      \cup { GoodBytes \o <<9, 9>> }

SourceFiles == {NoFile} \cup { BinFile(b) : b \in FullFiles \cup OddFiles }

BackupFiles ==
    { NoFile,
      BinFile(LayoutBytes(<<100, 43>>, [k \in 1..NumTroops |-> <<1, 1069547520>>],
                          Zeros(TheEndLen))) }

\* Text files as an operator may leave them: none, one that does not parse,
\* one without the job keys, one with another version.
TextFiles ==
    { NoFile,
      TextFile([EmptyDoc EXCEPT !.syntax = FALSE]),
      TextFile([EmptyDoc EXCEPT !.version = <<"int", 100>>, !.count = <<"int", 43>>,
                   !.hasTroops = TRUE,
                   !.troops = [k \in 1..NumTroops |->
                                 [job |-> Absent, move_speed |-> <<"dec", 1069547520>>]]]),
      TextFile([EmptyDoc EXCEPT !.version = <<"int", 7>>, !.count = <<"int", 43>>,
                   !.hasTroops = TRUE,
                   !.troops = [k \in 1..NumTroops |->
                                 [job |-> <<"int", 5>>, move_speed |-> <<"int", 2>>]]]) }

FlagSets ==
    [restore : BOOLEAN, debug : BOOLEAN, diff : BOOLEAN, write : BOOLEAN, update : BOOLEAN]

(* ------------------------------ actions ------------------------------- *)

\* The state of a process about to run main.
Fresh ==
    /\ pc = "open"
    /\ file = "none"
    /\ pos = 0
    /\ version = 0
    /\ count = 0
    /\ tis = SOXZero
    /\ i = 0
    /\ buf = BinBuf(<<>>)
    /\ errs = {}
    /\ dumped = FALSE
    /\ diffed = NoDiff
    /\ wrote = {}

Init ==
    /\ sox \in SourceFiles
    /\ bak \in BackupFiles
    /\ yaml \in TextFiles
    /\ flags \in FlagSets
    /\ Fresh
    /\ input = sox
    /\ runs = 1
    /\ firstWrite = NoWrite
    /\ lastWrite = NoWrite

\* os.Open(troopInfoPath); on an error the Fatal event is never sent and
\* file stays nil.
Open ==
    /\ pc = "open"
    /\ file' = IF sox.exists THEN "open" ELSE "nil"
    /\ errs' = IF sox.exists THEN errs ELSE errs \cup {"open"}
    /\ pc' = "header"
    /\ UNCHANGED << sox, bak, yaml, flags, pos, version, count, tis, i, buf,
                    dumped, diffed, wrote, input, runs, firstWrite, lastWrite >>

\* version, count := readInt32, readInt32; the validSOX check, whose Fatal
\* event is never sent; tis := troopInfoSOX{Version, Count, zero records}.
ReadHeader ==
    /\ pc = "header"
    /\ LET r1 == readBytes(pos)
           r2 == readBytes(r1.pos)
           v == int32FromBytes(r1.data)
           c == int32FromBytes(r2.data)
       IN  /\ version' = v
           /\ count' = c
           /\ pos' = r2.pos
           /\ tis' = [SOXZero EXCEPT !.Version = v, !.Count = c]
           /\ errs' = errs \cup (IF ReadFailed(r1) \/ ReadFailed(r2) THEN {"read"} ELSE {})
                           \cup (IF validSOX(v, c) THEN {} ELSE {"header"})
    /\ pc' = "records"
    /\ UNCHANGED << sox, bak, yaml, flags, file, i, buf, dumped, diffed, wrote,
                    input, runs, firstWrite, lastWrite >>

\* One iteration of `for i := range troopNames`; after the last one,
\* buf := &bytes.Buffer{}.
ReadTroopInfo ==
    /\ pc = "records"
    /\ i < NumTroops
    /\ LET r1 == readBytes(pos)
           r2 == readBytes(r1.pos)
           ti == [Job |-> int32FromBytes(r1.data),
                  MoveSpeed |-> float32FromBytes(r2.data)]
       IN  /\ tis' = [tis EXCEPT !.TroopInfos[i + 1] = ti]
           /\ pos' = r2.pos
           /\ errs' = errs \cup (IF ReadFailed(r1) \/ ReadFailed(r2) THEN {"read"} ELSE {})
    /\ i' = i + 1
    /\ pc' = IF i + 1 = NumTroops THEN "rest" ELSE "records"
    /\ buf' = BinBuf(<<>>)
    /\ UNCHANGED << sox, bak, yaml, flags, file, version, count, dumped, diffed,
                    wrote, input, runs, firstWrite, lastWrite >>

\* One iteration of the loop that reads the rest of the file: it ends on
\* io.EOF only; any other error is passed over.
ReadRest ==
    /\ pc = "rest"
    /\ LET r == FileRead(pos)
       IN  \/ /\ r.err = "EOF"
              /\ pc' = "encode"
              /\ UNCHANGED << pos, buf, errs >>
           \/ /\ r.err # "EOF"
              /\ errs' = IF r.err # "" THEN errs \cup {"read"} ELSE errs
              /\ buf' = BinBuf(buf.bytes \o BinaryReadChars(r.data))
              /\ pos' = r.pos
              /\ pc' = "rest"
    /\ UNCHANGED << sox, bak, yaml, flags, file, version, count, tis, i, dumped,
                    diffed, wrote, input, runs, firstWrite, lastWrite >>

\* copy(tis.TheEnd[:], buf.Bytes()); buf.Reset(); binary.Write(buf, &tis).
Encode ==
    /\ pc = "encode"
    /\ tis' = [tis EXCEPT !.TheEnd = CopyInto(TheEndLen, buf.bytes)]
    /\ buf' = BinBuf(BinaryWrite(tis'))
    /\ pc' = "restore"
    /\ UNCHANGED << sox, bak, yaml, flags, file, pos, version, count, i, errs,
                    dumped, diffed, wrote, input, runs, firstWrite, lastWrite >>

\* if *restore: the backup's bytes (nil when ReadFile failed, the Fatal event
\* never being sent) are written over the source binary; os.Exit(0).
Restore ==
    /\ pc = "restore"
    /\ \/ /\ flags.restore
          /\ errs' = IF bak.exists THEN errs ELSE errs \cup {"backup"}
          /\ sox' = BinFile(IF bak.exists THEN bak.bytes ELSE <<>>)
          /\ wrote' = wrote \cup {"sox"}
          /\ pc' = "exit"
       \/ /\ ~flags.restore
          /\ pc' = "debug"
          /\ UNCHANGED << sox, errs, wrote >>
    /\ UNCHANGED << bak, yaml, flags, file, pos, version, count, tis, i, buf,
                    dumped, diffed, input, runs, firstWrite, lastWrite >>

\* if *debug: spew.Dump(tis); os.Exit(0).
Debug ==
    /\ pc = "debug"
    /\ \/ /\ flags.debug
          /\ dumped' = TRUE
          /\ pc' = "exit"
       \/ /\ ~flags.debug
          /\ pc' = "update"
          /\ UNCHANGED dumped
    /\ UNCHANGED << sox, bak, yaml, flags, file, pos, version, count, tis, i, buf,
                    errs, diffed, wrote, input, runs, firstWrite, lastWrite >>

\* if *update: buf is reset and filled with the comment lines and
\* yaml.Marshal(tis), and written to the text file.  main goes on.
Update ==
    /\ pc = "update"
    /\ \/ /\ flags.update
          /\ buf' = TextBuf(YamlMarshal(tis))
          /\ yaml' = TextFile(buf'.doc[1])
          /\ wrote' = wrote \cup {"yaml"}
       \/ /\ ~flags.update
          /\ UNCHANGED << buf, yaml, wrote >>
    /\ pc' = "diff"
    /\ UNCHANGED << sox, bak, flags, file, pos, version, count, tis, i, errs,
                    dumped, diffed, input, runs, firstWrite, lastWrite >>

\* tis = troopInfoSOX{} (in the diff and in the write block).
ResetTisKeep(t) == t

ResetTis(t) == SOXZero

\* if *diff: cmp.Diff(binaryData(troopInfoSOX{}), buf.Bytes()); os.Exit(0).
Diff ==
    /\ pc = "diff"
    /\ \/ /\ flags.diff
          /\ tis' = ResetTis(tis)
          /\ LET r == binaryData(tis', yaml)
             IN  /\ errs' = IF r.err THEN errs \cup {"text"} ELSE errs
                 /\ diffed' = [done |-> TRUE, empty |-> BinBuf(r.data) = buf,
                               want |-> BinBuf(r.data), got |-> buf]
          /\ pc' = "exit"
       \/ /\ ~flags.diff
          /\ pc' = "write"
          /\ UNCHANGED << tis, errs, diffed >>
    /\ UNCHANGED << sox, bak, yaml, flags, file, pos, version, count, i, buf,
                    dumped, wrote, input, runs, firstWrite, lastWrite >>

\* if *write: binaryData(troopInfoSOX{}) is written over the source binary,
\* also when binaryData returned an error (data is then empty); os.Exit(0).
\* Without the flag main returns.
Write ==
    /\ pc = "write"
    /\ \/ /\ flags.write
          /\ tis' = ResetTis(tis)
          /\ LET r == binaryData(tis', yaml)
                 w == [done |-> TRUE, source |-> input, text |-> yaml,
                       err |-> r.err, data |-> r.data]
             IN  /\ errs' = IF r.err THEN errs \cup {"text"} ELSE errs
                 /\ sox' = BinFile(r.data)
                 /\ lastWrite' = w
                 /\ firstWrite' = IF firstWrite.done THEN firstWrite ELSE w
          /\ wrote' = wrote \cup {"sox"}
       \/ /\ ~flags.write
          /\ UNCHANGED << tis, errs, sox, wrote, firstWrite, lastWrite >>
    /\ pc' = "exit"
    /\ UNCHANGED << bak, yaml, flags, file, pos, version, count, i, buf, dumped,
                    diffed, input, runs >>

\* The operator starts the program again, with any command line.
StartRun ==
    /\ pc = "exit"
    /\ runs < MaxRuns
    /\ runs' = runs + 1
    /\ flags' \in FlagSets
    /\ input' = sox
    /\ pc' = "open"
    /\ file' = "none"
    /\ pos' = 0
    /\ version' = 0
    /\ count' = 0
    /\ tis' = SOXZero
    /\ i' = 0
    /\ buf' = BinBuf(<<>>)
    /\ errs' = {}
    /\ dumped' = FALSE
    /\ diffed' = NoDiff
    /\ wrote' = {}
    /\ UNCHANGED << sox, bak, yaml, firstWrite, lastWrite >>

Next ==
    \/ Open
    \/ ReadHeader
    \/ ReadTroopInfo
    \/ ReadRest
    \/ Encode
    \/ Restore
    \/ Debug
    \/ Update
    \/ Diff
    \/ Write
    \/ StartRun

Spec == Init /\ [][Next]_vars

(* ------------------------------- claims ------------------------------- *)

\* The little-endian int32 at word k (from 1) of a byte sequence.
WordAt(b, k) == int32FromBytes(SubSeq(b, defaultLength * (k - 1) + 1, defaultLength * k))

HeaderPasses(b) == WordAt(b, 1) = 100 /\ WordAt(b, 2) = 43

\* The input has the fixed total length and a header of version 100, count 43.
InputMatchesLayout ==
    /\ input.exists
    /\ Len(input.bytes) = TotalSize
    /\ HeaderPasses(input.bytes)

\* The bytes of the input after the last record.
InputRest ==
    SubSeq(input.bytes, 2 * defaultLength + NumTroops * RecordSize + 1, Len(input.bytes))

\* C1: for every input of the fixed total length whose header is version 100,
\* count 43, the bytes main encodes from the decoded container (buf after
\* binary.Write, line 261) equal the input byte for byte, trailing bytes
\* included.
C1_RoundTrip ==
    (pc = "restore" /\ InputMatchesLayout) => buf = BinBuf(input.bytes)

\* C2: for every input whose first word is not 100 or whose second word is
\* not 43, the run stops at the header check: once past it the process has
\* exited, no record has been decoded, nothing was dumped or diffed and no
\* file was written.
C2_HeaderRejection ==
    ( /\ input.exists
      /\ Len(input.bytes) >= 2 * defaultLength
      /\ ~HeaderPasses(input.bytes)
      /\ pc \notin {"open", "header"} )
    => (pc = "exit" /\ i = 0 /\ ~dumped /\ ~diffed.done /\ wrote = {})

\* C3: for every input shorter than the fixed total size, decoding fails with
\* an error: the run never gets past the decoding part without any error
\* raised, holding a container whose missing bytes were read as zero.
C3_TruncationRejection ==
    (input.exists /\ Len(input.bytes) < TotalSize)
    => ~(pc \in {"restore", "debug", "update", "diff", "write"} /\ errs = {})

\* C4: once a step of the run has failed (open, read, header check, backup
\* read, text read or parse), no step of that run, the failing one included,
\* creates, truncates or modifies the source binary or the text file.
C4_NoOutputOnError ==
    [][ errs' # {} => (sox' = sox /\ yaml' = yaml) ]_vars

\* C5: after decoding, the trailing blob of the container is the first
\* TheEndLen bytes of the input after the last record, zero-padded when fewer
\* remain.
C5_TrailingBlobPreserved ==
    (pc = "restore" /\ input.exists) => tis.TheEnd = CopyInto(TheEndLen, InputRest)

\* C6: every run terminates: a run that has not exited can always take a step
\* that changes its state (it is never left with only an iteration that
\* repeats the state it is in, which is a loop without end).
C6_Terminates ==
    (pc # "exit") => ENABLED <<Next>>_vars

\* C7: the text update mode writes, loaded into a zero container, gives back
\* the version, the count and every scalar field of every record of the
\* container it was written from, so that encoding it reproduces the header
\* and record bytes.
C7_TextRoundTrip ==
    (pc = "diff" /\ "yaml" \in wrote /\ tis.TheEnd = Zeros(TheEndLen))
    => LET u == YamlUnmarshal(yaml.doc[1], SOXZero)
       IN  /\ ~u.err
           /\ u.sox.Version = tis.Version
           /\ u.sox.Count = tis.Count
           /\ u.sox.TroopInfos = tis.TroopInfos
           /\ BinaryWrite(u.sox) = BinaryWrite(tis)

\* C8: whenever diff mode runs, with any other flags, cmp.Diff is given the
\* encoding built from the text file and the bytes of the current source
\* binary, and prints nothing exactly when a write run would leave the
\* source binary as it is.  Stated for source binaries that match the layout
\* and end in zero bytes, which main's decoding and encoding reproduce.
C8_DiffAgainstSource ==
    (diffed.done /\ InputMatchesLayout /\ InputRest = Zeros(TheEndLen))
    => /\ diffed.got = BinBuf(input.bytes)
       /\ diffed.empty <=> (diffed.want = BinBuf(input.bytes))

\* C9: what write mode writes depends on the text file only: two write-mode
\* writes that read the same text file wrote the same bytes, whatever the
\* source binary of each run; and when the text file loads, the bytes have
\* the fixed total length, every key absent from the text is written as a
\* zero word and the trailing bytes are all zero.
C9_WriteDependsOnTextOnly ==
    /\ (firstWrite.done /\ lastWrite.done /\ firstWrite.text = lastWrite.text)
       => firstWrite.data = lastWrite.data
    /\ (lastWrite.done /\ ~lastWrite.err)
       => LET d == lastWrite.text.doc[1]
              b == lastWrite.data
              zero == Zeros(defaultLength)
              word(k) == SubSeq(b, defaultLength * (k - 1) + 1, defaultLength * k)
          IN  /\ Len(b) = TotalSize
              /\ SubSeq(b, TotalSize - TheEndLen + 1, TotalSize) = Zeros(TheEndLen)
              /\ d.version = Absent => word(1) = zero
              /\ d.count = Absent => word(2) = zero
              /\ \A k \in 1..NumTroops :
                   /\ (~d.hasTroops \/ d.troops[k].job = Absent) => word(2 * k + 1) = zero
                   /\ (~d.hasTroops \/ d.troops[k].move_speed = Absent)
                        => word(2 * k + 2) = zero

\* Two write-mode writes read the same text file, which loads and has no job
\* key, in runs whose source binaries both match the layout and differ, the
\* first with a job field that is not zero.
C9_Witness ==
    /\ firstWrite.done
    /\ lastWrite.done
    /\ firstWrite.text = lastWrite.text
    /\ ~lastWrite.err
    /\ lastWrite.text.doc[1].troops[1].job = Absent
    /\ firstWrite.source # lastWrite.source
    /\ firstWrite.source.exists /\ lastWrite.source.exists
    /\ Len(firstWrite.source.bytes) = TotalSize /\ Len(lastWrite.source.bytes) = TotalSize
    /\ HeaderPasses(firstWrite.source.bytes) /\ HeaderPasses(lastWrite.source.bytes)
    /\ WordAt(firstWrite.source.bytes, 3) # 0

\* C10: every binary that a write run over a source binary matching the
\* layout builds from a text file that loads, whatever the text holds, and
\* stores at the source path has the fixed total length and a header of
\* version 100, count 43.
C10_WrittenDecodable ==
    ( /\ lastWrite.done
      /\ ~lastWrite.err
      /\ lastWrite.source.exists
      /\ Len(lastWrite.source.bytes) = TotalSize
      /\ HeaderPasses(lastWrite.source.bytes) )
    => (Len(lastWrite.data) = TotalSize /\ HeaderPasses(lastWrite.data))

====
